---- MODULE Spec2Model ----
(***************************************************************************)
(* Model of the automatic graph layout of the room editor:                 *)
(* calculateAutoLayout (src/components/load-rooms-modal.tsx, 261-439).     *)
(*                                                                         *)
(* One behaviour is one call of calculateAutoLayout.  Init draws the       *)
(* arguments (allNodes, allEdges, startNodeId); the actions are the        *)
(* consecutive blocks of the function body, the while loop being one       *)
(* action per iteration.                                                   *)
(*                                                                         *)
(* Representation.                                                         *)
(*  - A node id is a string of decimal digits, modelled as the sequence of *)
(*    its digits (<<1, 0>> is "10"), so that the string comparison of line *)
(*    392 is modelled as the comparison of strings, not of numbers.        *)
(*    <<>> is the absent (undefined, or empty and so falsy) startNodeId.   *)
(*  - A coordinate is a fixed-point number in 1/1000 pixel.  Math.cos and  *)
(*    Math.sin of k*PI/d are tabulated, rounded to 1/1000 (CosMilli,       *)
(*    SinMilli); differences below that resolution, such as                *)
(*    Math.cos(Math.PI / 2) = 6.1e-17, are rounded away.                   *)
(***************************************************************************)
EXTENDS Integers, Sequences, FiniteSets, TLC

VARIABLES
    allNodes,       \* argument: sequence of [id, position]
    allEdges,       \* argument: sequence of [id, source, target, data, sourceHandle, targetHandle]
    startNodeId,    \* argument: an id, or <<>> when absent
    nodePositions,  \* local: id -> [x, y]
    graphIn,        \* local: id -> sequence of source ids
    graphOut,       \* local: id -> sequence of target ids
    rootNodeIds,    \* local: sequence of ids
    positionedIds,  \* local: set of ids
    queue,          \* local: sequence of ids
    unplaced,       \* local: the nodes the filter of line 350 keeps
    enhancedEdges,  \* result: sequence of edges
    dequeues,       \* number of queue.shift() calls so far (line 325)
    enqueued,       \* the ids put on the queue so far, in order (lines 322, 343);
                    \* each one had its position written just before (314, 341)
    pc,             \* position in the function body
    calls,          \* number of calls of calculateAutoLayout begun so far
    firstCall,      \* the outcome of the first call, once a second has begun
    localStorage,   \* window.localStorage: key -> item
    created,        \* the calls of createRoomInApi so far, in order
    apiCalls,       \* number of calls of roomApi.createRoom so far
    existingNodes,  \* loadRoomsFromApi, argument: the nodes of the diagram
    existingEdges,  \* loadRoomsFromApi, argument: the edges of the diagram
    startRoomId,    \* loadRoomsFromApi, argument: a room id (a number)
    data,           \* loadRoomsFromApi, local: the answer of roomApi.readRoomGraph
    newNodes,       \* loadRoomsFromApi, local
    newEdges,       \* loadRoomsFromApi, local
    loadResult,     \* loadRoomsFromApi, result: [newNodes, newEdges, message]
    firstLoad,      \* the result of the first load, once a second has begun
    diagramNodes,   \* flow diagram, state `nodes`: sequence of node ids
    diagramEdges,   \* flow diagram, state `edges`: sequence of [id, source, target]
    adding,         \* onAddNode calls awaiting createRoomInApi
    loading,        \* loadRooms calls awaiting roomApi.readRoomGraph
    serverNextId,   \* the id the server gives to the next room it creates
    edits,          \* the number of handler calls so far
    lastLoad        \* the last write of loadRooms: the diagram it began with,
                    \* the diagram it found and the diagram it left

layoutVars == <<allNodes, allEdges, startNodeId, nodePositions, graphIn, graphOut,
                rootNodeIds, positionedIds, queue, unplaced, enhancedEdges,
                dequeues, enqueued, pc>>

callVars == <<calls, firstCall>>

roomVars == <<localStorage, created, apiCalls>>

loadVars == <<existingNodes, existingEdges, startRoomId, data, newNodes,
              newEdges, loadResult, firstLoad>>

flowVars == <<diagramNodes, diagramEdges, adding, loading, serverNextId, edits,
              lastLoad>>

vars == <<layoutVars, callVars, roomVars, loadVars, flowVars>>

(***************************************************************************)
(* Bounds of the model.                                                    *)
(***************************************************************************)
MaxEdges == 2
MaxCalls == 3

(***************************************************************************)
(* Program constants.                                                      *)
(***************************************************************************)
horizontalSpacing == 300
verticalSpacing == 200
rootY == 100

Milli(px) == px * 1000

(***************************************************************************)
(* Helpers.                                                                *)
(***************************************************************************)
Abs(n) == IF n < 0 THEN -n ELSE n

Max(S) == CHOOSE m \in S : \A n \in S : n <= m

Range(s) == {s[i] : i \in DOMAIN s}

Put(f, k, v) == [a \in DOMAIN f \cup {k} |-> IF a = k THEN v ELSE f[a]]

NodeIds(nodes) == {nodes[i].id : i \in DOMAIN nodes}

\* JavaScript's > on two strings: by code unit, a proper prefix being smaller.
RECURSIVE StrGreater(_, _)
StrGreater(a, b) ==
    IF a = <<>> THEN FALSE
    ELSE IF b = <<>> THEN TRUE
    ELSE IF Head(a) # Head(b) THEN Head(a) > Head(b)
    ELSE StrGreater(Tail(a), Tail(b))

\* 1000 * Math.cos(k * Math.PI / d) and 1000 * Math.sin(k * Math.PI / d), rounded.
CosTable ==
    [d \in 2..6 |->
        CASE d = 2 -> <<0>>
          [] d = 3 -> <<500, -500>>
          [] d = 4 -> <<707, 0, -707>>
          [] d = 5 -> <<809, 309, -309, -809>>
          [] d = 6 -> <<866, 500, 0, -500, -866>>]

SinTable ==
    [d \in 2..6 |->
        CASE d = 2 -> <<1000>>
          [] d = 3 -> <<866, 866>>
          [] d = 4 -> <<707, 1000, 707>>
          [] d = 5 -> <<588, 951, 951, 588>>
          [] d = 6 -> <<500, 866, 1000, 866, 500>>]

CosMilli(k, d) == CosTable[d][k]

SinMilli(k, d) == SinTable[d][k]

(***************************************************************************)
(* The arguments of a call.                                                *)
(***************************************************************************)
\* The ids "1", "2" and "10": as numbers 2 < 10, as strings "10" < "2".
NodeIdPool == {<<1>>, <<2>>, <<1, 0>>}

\* The positions the nodes carry into the call: those an earlier call gave them
\* (as its roots), or the temporary position of a node not placed yet.
InputLayouts ==
    {[i \in 1..Cardinality(NodeIdPool) |->
         [x |-> (i - 1) * Milli(horizontalSpacing), y |-> Milli(rootY)]],
     [i \in 1..Cardinality(NodeIdPool) |-> [x |-> Milli(700), y |-> Milli(500)]]}

Undefined == "undefined"

\* allNodes: every list of nodes of distinct ids.
NodeLists ==
    UNION {{s \in [1..n -> NodeIdPool] : \A i, j \in 1..n : i # j => s[i] # s[j]} :
           n \in 0..Cardinality(NodeIdPool)}

\* allEdges: every list of at most MaxEdges edges between ids of the pool (an id
\* that is no node of allNodes is a dangling reference).
EdgeLists ==
    UNION {[1..n -> NodeIdPool \X NodeIdPool] : n \in 0..MaxEdges}

\* An edge as createEdgeFromApiExit builds it (src/lib/api-utils.ts, 142-166):
\* data is the payload (label, description, api_id), and there are no handles yet.
MakeEdge(i, st) ==
    [id |-> i, source |-> st[1], target |-> st[2], data |-> [api_id |-> i],
     sourceHandle |-> Undefined, targetHandle |-> Undefined]

\* No room has been created.
NoRoomCalls ==
    /\ localStorage = <<>>
    /\ created = <<>>
    /\ apiCalls = 0

\* loadRoomsFromApi has not been called.
NoLoad ==
    /\ existingNodes = <<>>
    /\ existingEdges = <<>>
    /\ startRoomId = 0
    /\ data = <<>>
    /\ newNodes = <<>>
    /\ newEdges = <<>>
    /\ loadResult = <<>>
    /\ firstLoad = <<>>

\* No handler of the flow diagram has been called.
NoFlow ==
    /\ diagramNodes = <<>>
    /\ diagramEdges = <<>>
    /\ adding = <<>>
    /\ loading = <<>>
    /\ serverNextId = 0
    /\ edits = 0
    /\ lastLoad = <<>>

Init ==
    /\ NoRoomCalls
    /\ NoLoad
    /\ NoFlow
    /\ \E ids \in NodeLists :
         \E ps \in InputLayouts :
            allNodes = [i \in 1..Len(ids) |-> [id |-> ids[i], position |-> ps[i]]]
    /\ \E es \in EdgeLists : allEdges = [i \in 1..Len(es) |-> MakeEdge(i, es[i])]
    /\ startNodeId \in NodeIdPool \cup {<<>>}
    /\ nodePositions = <<>>
    /\ graphIn = <<>>
    /\ graphOut = <<>>
    /\ rootNodeIds = <<>>
    /\ positionedIds = {}
    /\ queue = <<>>
    /\ unplaced = <<>>
    /\ enhancedEdges = <<>>
    /\ dequeues = 0
    /\ enqueued = <<>>
    /\ pc = "build"
    /\ calls = 1
    /\ firstCall = <<>>

(***************************************************************************)
(* Lines 266-285: the position table and the adjacency maps.               *)
(***************************************************************************)
\* Lines 273-279: one entry per node id.
\* Line 278: a later node of the same id overwrites an earlier one's entry.
LastIndexOf(nodes, a) ==
    Max({i \in DOMAIN nodes : nodes[i].id = a})

StorePositions(nodes) ==
    [a \in NodeIds(nodes) |-> nodes[LastIndexOf(nodes, a)].position]

\* Variant: graphIn[node.id] = [] is missing from the first loop, so that every
\* push to graphIn[edge.target] throws.
PushRaisesGraphInMissing(ids, edge) == TRUE

\* Lines 283-284: graphOut[edge.source] or graphIn[edge.target] is undefined
\* for an id that is no node's id, and calling push on it throws a TypeError.
PushRaises(ids, edge) == edge.source \notin ids \/ edge.target \notin ids

\* The ids pushed to graphOut[a], in the order of allEdges.
RECURSIVE OutList(_, _)
OutList(a, edges) ==
    IF edges = <<>> THEN <<>>
    ELSE (IF Head(edges).source = a THEN <<Head(edges).target>> ELSE <<>>)
         \o OutList(a, Tail(edges))

\* The ids pushed to graphIn[a], in the order of allEdges.
RECURSIVE InList(_, _)
InList(a, edges) ==
    IF edges = <<>> THEN <<>>
    ELSE (IF Head(edges).target = a THEN <<Head(edges).source>> ELSE <<>>)
         \o InList(a, Tail(edges))

\* A TypeError thrown at line 283 or 284 ends the call: the locals are dropped.
BuildGraph ==
    /\ pc = "build"
    /\ nodePositions' = StorePositions(allNodes)
    /\ IF \E i \in DOMAIN allEdges : PushRaises(NodeIds(allNodes), allEdges[i])
       THEN /\ pc' = "raised"
            /\ UNCHANGED <<graphIn, graphOut>>
       ELSE /\ pc' = "roots"
            /\ graphOut' = [a \in NodeIds(allNodes) |-> OutList(a, allEdges)]
            /\ graphIn' = [a \in NodeIds(allNodes) |-> InList(a, allEdges)]
    /\ UNCHANGED <<callVars, roomVars, loadVars, flowVars>>
    /\ UNCHANGED <<allNodes, allEdges, startNodeId, rootNodeIds, positionedIds,
                   queue, unplaced, enhancedEdges, dequeues, enqueued>>

(***************************************************************************)
(* Lines 287-305: the root nodes.                                          *)
(***************************************************************************)
\* Variant: the start node is not looked up in allNodes.
StartAppliesUnchecked(nodes, start) == start # <<>>

\* Line 290: startNodeId && allNodes.some((node) => node.id === startNodeId)
StartApplies(nodes, start) == start # <<>> /\ start \in NodeIds(nodes)

\* Lines 295-299: the nodes without incoming connections, in the order of allNodes.
RECURSIVE NoIncoming(_, _)
NoIncoming(nodes, gIn) ==
    IF nodes = <<>> THEN <<>>
    ELSE (IF Len(gIn[Head(nodes).id]) = 0 THEN <<Head(nodes).id>> ELSE <<>>)
         \o NoIncoming(Tail(nodes), gIn)

\* Variant: allNodes is not tested for being empty, and the id of the missing
\* first node (read as allNodes[0]?.id) is undefined.
FirstNodeFallbackUnguarded(nodes, roots) ==
    IF Len(roots) = 0
    THEN <<IF Len(nodes) > 0 THEN nodes[1].id ELSE Undefined>>
    ELSE roots

\* Variant: the last node instead of the first.
FirstNodeFallbackLast(nodes, roots) ==
    IF Len(roots) = 0 /\ Len(nodes) > 0 THEN <<nodes[Len(nodes)].id>> ELSE roots

\* Lines 302-304: the first node when no root was found.
FirstNodeFallback(nodes, roots) ==
    IF Len(roots) = 0 /\ Len(nodes) > 0 THEN <<nodes[1].id>> ELSE roots

\* Variant: the start node is put first and the nodes without incoming
\* connections are roots as well.
FindRootNodeIdsStartFirst(nodes, gIn, start) ==
    IF start # <<>> /\ start \in NodeIds(nodes)
    THEN <<start>> \o SelectSeq(NoIncoming(nodes, gIn), LAMBDA a : a # start)
    ELSE FirstNodeFallback(nodes, NoIncoming(nodes, gIn))

FindRootNodeIds(nodes, gIn, start) ==
    IF StartApplies(nodes, start)
    THEN <<start>>
    ELSE FirstNodeFallback(nodes, NoIncoming(nodes, gIn))

FindRoots ==
    /\ pc = "roots"
    /\ rootNodeIds' = FindRootNodeIds(allNodes, graphIn, startNodeId)
    /\ pc' = "place"
    /\ UNCHANGED <<callVars, roomVars, loadVars, flowVars>>
    /\ UNCHANGED <<allNodes, allEdges, startNodeId, nodePositions, graphIn,
                   graphOut, positionedIds, queue, unplaced, enhancedEdges,
                   dequeues, enqueued>>

(***************************************************************************)
(* Lines 311-322: the roots' positions, and the BFS queue.                 *)
(***************************************************************************)
\* Variant: the roots are stacked in a column.
RootPositionStacked(index) ==
    [x |-> 0, y |-> Milli(rootY) + index * Milli(verticalSpacing)]

\* Lines 314-317: the position of the root of the given forEach index (0-based).
RootPosition(index) ==
    [x |-> index * Milli(horizontalSpacing), y |-> Milli(rootY)]

RECURSIVE PlaceRootNodes(_, _, _)
PlaceRootNodes(pos, roots, index) ==
    IF roots = <<>> THEN pos
    ELSE PlaceRootNodes(Put(pos, Head(roots), RootPosition(index)),
                        Tail(roots), index + 1)

\* Variant: positionedIds is a set of the module, kept from call to call.
PlaceRootsSharedSet ==
    /\ pc = "place"
    /\ nodePositions' = PlaceRootNodes(nodePositions, rootNodeIds, 0)
    /\ positionedIds' = positionedIds \cup Range(rootNodeIds)
    /\ queue' = rootNodeIds
    /\ enqueued' = rootNodeIds
    /\ pc' = "bfs"
    /\ UNCHANGED <<callVars, roomVars, loadVars, flowVars>>
    /\ UNCHANGED <<allNodes, allEdges, startNodeId, graphIn, graphOut,
                   rootNodeIds, unplaced, enhancedEdges, dequeues>>

PlaceRoots ==
    /\ pc = "place"
    /\ nodePositions' = PlaceRootNodes(nodePositions, rootNodeIds, 0)
    /\ positionedIds' = Range(rootNodeIds)
    /\ queue' = rootNodeIds
    /\ enqueued' = rootNodeIds
    /\ pc' = "bfs"
    /\ UNCHANGED <<callVars, roomVars, loadVars, flowVars>>
    /\ UNCHANGED <<allNodes, allEdges, startNodeId, graphIn, graphOut,
                   rootNodeIds, unplaced, enhancedEdges, dequeues>>

(***************************************************************************)
(* Lines 324-346: one iteration of the BFS loop.                           *)
(***************************************************************************)
\* Lines 329-330: graphOut[currentId]?.filter((id) => !positionedIds.has(id)) || []
RECURSIVE FilterOut(_, _)
FilterOut(list, drop) ==
    IF list = <<>> THEN <<>>
    ELSE (IF Head(list) \in drop THEN <<>> ELSE <<Head(list)>>)
         \o FilterOut(Tail(list), drop)

\* Variant: the out-neighbours are not filtered by positionedIds.
ChildrenUnfiltered(gOut, currentId, positioned) ==
    IF currentId \in DOMAIN gOut THEN gOut[currentId] ELSE <<>>

Children(gOut, currentId, positioned) ==
    IF currentId \in DOMAIN gOut THEN FilterOut(gOut[currentId], positioned) ELSE <<>>

\* Variant: the radius is horizontalSpacing on both axes.
ChildPositionCircle(parentPos, n, index) ==
    [x |-> parentPos.x + horizontalSpacing * CosMilli(index + 1, n + 1),
     y |-> parentPos.y + horizontalSpacing * SinMilli(index + 1, n + 1)]

\* Variant: every child is put at the angle PI / 2, whatever its index.
ChildPositionNoSlot(parentPos, n, index) ==
    [x |-> parentPos.x + (horizontalSpacing \div 2) * CosMilli(1, 2),
     y |-> parentPos.y + verticalSpacing * SinMilli(1, 2)]

\* Lines 337-339: the position of the child of the given index (0-based) among n.
ChildPosition(parentPos, n, index) ==
    [x |-> parentPos.x + (horizontalSpacing \div 2) * CosMilli(index + 1, n + 1),
     y |-> parentPos.y + verticalSpacing * SinMilli(index + 1, n + 1)]

\* Lines 336-344: nodePositions after the forEach over children.
RECURSIVE PlaceChildren(_, _, _, _, _)
PlaceChildren(pos, parentPos, children, n, index) ==
    IF children = <<>> THEN pos
    ELSE PlaceChildren(Put(pos, Head(children), ChildPosition(parentPos, n, index)),
                       parentPos, Tail(children), n, index + 1)

\* Variant: a placed child is not put on the queue (line 343 is missing).
BfsStepNoEnqueue ==
    /\ pc = "bfs"
    /\ queue # <<>>
    /\ dequeues' = dequeues + 1
    /\ LET currentId == Head(queue)
           children == Children(graphOut, currentId, positionedIds)
       IN  IF currentId \notin DOMAIN nodePositions
           THEN /\ queue' = Tail(queue)
                /\ UNCHANGED <<nodePositions, positionedIds, enqueued>>
           ELSE /\ nodePositions' =
                       PlaceChildren(nodePositions, nodePositions[currentId],
                                     children, Len(children), 0)
                /\ positionedIds' = positionedIds \cup Range(children)
                /\ queue' = Tail(queue)
                /\ UNCHANGED enqueued
    /\ UNCHANGED <<callVars, roomVars, loadVars, flowVars>>
    /\ UNCHANGED <<allNodes, allEdges, startNodeId, graphIn, graphOut,
                   rootNodeIds, unplaced, enhancedEdges, pc>>

BfsStep ==
    /\ pc = "bfs"
    /\ queue # <<>>
    /\ dequeues' = dequeues + 1
    /\ LET currentId == Head(queue)
           children == Children(graphOut, currentId, positionedIds)
       IN  IF currentId \notin DOMAIN nodePositions
           THEN /\ queue' = Tail(queue)
                /\ UNCHANGED <<nodePositions, positionedIds, enqueued>>
           ELSE /\ nodePositions' =
                       PlaceChildren(nodePositions, nodePositions[currentId],
                                     children, Len(children), 0)
                /\ positionedIds' = positionedIds \cup Range(children)
                /\ queue' = Tail(queue) \o children
                /\ enqueued' = enqueued \o children
    /\ UNCHANGED <<callVars, roomVars, loadVars, flowVars>>
    /\ UNCHANGED <<allNodes, allEdges, startNodeId, graphIn, graphOut,
                   rootNodeIds, unplaced, enhancedEdges, pc>>

(***************************************************************************)
(* Lines 348-360: the nodes the BFS did not place.                         *)
(***************************************************************************)
\* Line 350: .filter((node) => !positionedIds.has(node.id))
Unplaced(nodes, positioned) ==
    FilterOut([i \in DOMAIN nodes |-> nodes[i].id], positioned)

\* Variant: the packing starts from x = 0, whatever is placed already.
MaxXZero(pos) == 0

\* Line 353: Math.max(...Object.values(nodePositions).map((p) => p.x), 0)
MaxX(pos) == Max({pos[a].x : a \in DOMAIN pos} \cup {0})

\* Lines 356-359
FallbackPosition(pos, index) ==
    [x |-> MaxX(pos) + Milli(horizontalSpacing),
     y |-> Milli(rootY) + index * Milli(verticalSpacing)]

RECURSIVE PlaceUnplaced(_, _, _)
PlaceUnplaced(pos, list, index) ==
    IF list = <<>> THEN pos
    ELSE PlaceUnplaced(Put(pos, Head(list), FallbackPosition(pos, index)),
                       Tail(list), index + 1)

\* Variant: the position object stored at line 278, which is the node's own,
\* is written in place (nodePositions[node.id].x = ..., .y = ...) instead of
\* being replaced by a new object.
PlaceRemainingInPlace ==
    /\ pc = "bfs"
    /\ queue = <<>>
    /\ unplaced' = Unplaced(allNodes, positionedIds)
    /\ nodePositions' = PlaceUnplaced(nodePositions, unplaced', 0)
    /\ allNodes' = [i \in DOMAIN allNodes |->
                      IF allNodes[i].id \in Range(unplaced')
                      THEN [allNodes[i] EXCEPT !.position = nodePositions'[allNodes[i].id]]
                      ELSE allNodes[i]]
    /\ pc' = "handles"
    /\ UNCHANGED <<callVars, roomVars, loadVars, flowVars>>
    /\ UNCHANGED <<allEdges, startNodeId, graphIn, graphOut,
                   rootNodeIds, positionedIds, queue, enhancedEdges, dequeues,
                   enqueued>>

PlaceRemaining ==
    /\ pc = "bfs"
    /\ queue = <<>>
    /\ unplaced' = Unplaced(allNodes, positionedIds)
    /\ nodePositions' = PlaceUnplaced(nodePositions, unplaced', 0)
    /\ pc' = "handles"
    /\ UNCHANGED <<callVars, roomVars, loadVars, flowVars>>
    /\ UNCHANGED <<allNodes, allEdges, startNodeId, graphIn, graphOut,
                   rootNodeIds, positionedIds, queue, enhancedEdges, dequeues,
                   enqueued>>

(***************************************************************************)
(* Lines 362-438: the edge handles, and the return.                        *)
(***************************************************************************)
\* Lines 375-377
HasReverseEdge(edges, edge) ==
    \E i \in DOMAIN edges :
        edges[i].source = edge.target /\ edges[i].target = edge.source

\* The number a string of digits denotes.
RECURSIVE DigitsValue(_)
DigitsValue(a) ==
    IF a = <<>> THEN 0 ELSE 10 * DigitsValue(SubSeq(a, 1, Len(a) - 1)) + a[Len(a)]

\* Variant: the ids are compared by >=, so that a self-loop is a return edge.
IsReturnEdgeOrEqual(edges, edge) ==
    HasReverseEdge(edges, edge) /\ ~StrGreater(edge.target, edge.source)

\* Variant: the ids are compared as numbers.
IsReturnEdgeNumeric(edges, edge) ==
    HasReverseEdge(edges, edge) /\ DigitsValue(edge.source) > DigitsValue(edge.target)

\* Variant: both edges of a reverse pair are return edges.
IsReturnEdgeBoth(edges, edge) == HasReverseEdge(edges, edge)

\* Lines 392 and 416
IsReturnEdge(edges, edge) ==
    HasReverseEdge(edges, edge) /\ StrGreater(edge.source, edge.target)

\* Variant: the offset side of a return edge is chosen by the opposite sign.
HandlesOffsetSwapped(xDiff, yDiff, isReturn) ==
    IF Abs(xDiff) >= Abs(yDiff)
    THEN LET direct == IF xDiff > 0 THEN <<"right-source", "left-target">>
                                    ELSE <<"left-source", "right-target">>
         IN  IF isReturn
             THEN (IF yDiff >= 0 THEN <<"bottom-source", "bottom-target">>
                                 ELSE <<"top-source", "top-target">>)
             ELSE direct
    ELSE LET direct == IF yDiff > 0 THEN <<"bottom-source", "top-target">>
                                    ELSE <<"top-source", "bottom-target">>
         IN  IF isReturn
             THEN (IF xDiff >= 0 THEN <<"left-source", "left-target">>
                                 ELSE <<"right-source", "right-target">>)
             ELSE direct

\* Variant: the horizontal case is chosen by > instead of >=.
HandlesStrictAxis(xDiff, yDiff, isReturn) ==
    IF Abs(xDiff) > Abs(yDiff)
    THEN LET direct == IF xDiff > 0 THEN <<"right-source", "left-target">>
                                    ELSE <<"left-source", "right-target">>
         IN  IF isReturn
             THEN (IF yDiff >= 0 THEN <<"top-source", "top-target">>
                                 ELSE <<"bottom-source", "bottom-target">>)
             ELSE direct
    ELSE LET direct == IF yDiff > 0 THEN <<"bottom-source", "top-target">>
                                    ELSE <<"top-source", "bottom-target">>
         IN  IF isReturn
             THEN (IF xDiff >= 0 THEN <<"right-source", "right-target">>
                                 ELSE <<"left-source", "left-target">>)
             ELSE direct

\* Lines 380-426: <<sourceHandle, targetHandle>>.  The handles of the direction
\* are assigned first (381-389, 405-413) and overwritten for a return edge
\* (392-401, 416-425).
Handles(xDiff, yDiff, isReturn) ==
    IF Abs(xDiff) >= Abs(yDiff)
    THEN LET direct == IF xDiff > 0 THEN <<"right-source", "left-target">>
                                    ELSE <<"left-source", "right-target">>
         IN  IF isReturn
             THEN (IF yDiff >= 0 THEN <<"top-source", "top-target">>
                                 ELSE <<"bottom-source", "bottom-target">>)
             ELSE direct
    ELSE LET direct == IF yDiff > 0 THEN <<"bottom-source", "top-target">>
                                    ELSE <<"top-source", "bottom-target">>
         IN  IF isReturn
             THEN (IF xDiff >= 0 THEN <<"right-source", "right-target">>
                                 ELSE <<"left-source", "left-target">>)
             ELSE direct

\* Variant: the returned edge is built from id, source and target, without
\* spreading the edge (line 430), so its payload is lost.
EnhanceEdgeNoSpread(edges, pos, edge) ==
    IF edge.source \in DOMAIN pos /\ edge.target \in DOMAIN pos
    THEN LET xDiff == pos[edge.target].x - pos[edge.source].x
             yDiff == pos[edge.target].y - pos[edge.source].y
             h == Handles(xDiff, yDiff, IsReturnEdge(edges, edge))
         IN  [id |-> edge.id, source |-> edge.source, target |-> edge.target,
              sourceHandle |-> h[1], targetHandle |-> h[2]]
    ELSE edge

\* Lines 363-436: the body of allEdges.map
EnhanceEdge(edges, pos, edge) ==
    IF edge.source \in DOMAIN pos /\ edge.target \in DOMAIN pos
    THEN LET xDiff == pos[edge.target].x - pos[edge.source].x
             yDiff == pos[edge.target].y - pos[edge.source].y
             h == Handles(xDiff, yDiff, IsReturnEdge(edges, edge))
         IN  [edge EXCEPT !.sourceHandle = h[1], !.targetHandle = h[2]]
    ELSE edge

AssignHandles ==
    /\ pc = "handles"
    /\ enhancedEdges' =
           [i \in DOMAIN allEdges |-> EnhanceEdge(allEdges, nodePositions, allEdges[i])]
    /\ pc' = "done"
    /\ UNCHANGED <<callVars, roomVars, loadVars, flowVars>>
    /\ UNCHANGED <<allNodes, allEdges, startNodeId, nodePositions, graphIn,
                   graphOut, rootNodeIds, positionedIds, queue, unplaced,
                   dequeues, enqueued>>

Next ==
    \/ BuildGraph
    \/ FindRoots
    \/ PlaceRoots
    \/ BfsStep
    \/ PlaceRemaining
    \/ AssignHandles

Spec == Init /\ [][Next]_vars

(***************************************************************************)
(* A second call with the same arguments.  The function keeps nothing      *)
(* outside its body: every local is declared in the body (lines 266-270,   *)
(* 288, 321, 322, 350, 363).  A variable of the model that stands for a    *)
(* local keeps the value the first call left in it until the second call   *)
(* reaches the declaration, so that a local the body read before declaring *)
(* it anew would carry the first call into the second.                     *)
(***************************************************************************)
Outcome ==
    [thrown |-> pc = "raised",
     nodePositions |-> IF pc = "raised" THEN <<>> ELSE nodePositions,
     enhancedEdges |-> IF pc = "raised" THEN <<>> ELSE enhancedEdges]

CallAgain ==
    /\ pc \in {"done", "raised"}
    /\ calls = 1
    /\ calls' = 2
    /\ firstCall' = Outcome
    /\ pc' = "build"
    /\ dequeues' = 0
    /\ enqueued' = <<>>
    /\ UNCHANGED <<roomVars, loadVars, flowVars>>
    /\ UNCHANGED <<allNodes, allEdges, startNodeId, nodePositions, graphIn,
                   graphOut, rootNodeIds, positionedIds, queue, unplaced,
                   enhancedEdges>>

NextTwice ==
    \/ Next
    \/ CallAgain

SpecTwice == Init /\ [][NextTwice]_vars

(***************************************************************************)
(* createRoomInApi (src/lib/api-utils.ts, 36-65).                          *)
(*                                                                         *)
(* An item of localStorage that holds a number is the string of its        *)
(* decimal digits with an optional minus sign: [neg, digits].              *)
(***************************************************************************)
NextIdKey == "flow-diagram-next-id"

UrlKey == "flow-diagram-server-url"

EnabledKey == "flow-diagram-server-enabled"

\* Number.prototype.toString of an integer
RECURSIVE DigitsOf(_)
DigitsOf(n) == IF n < 10 THEN <<n>> ELSE Append(DigitsOf(n \div 10), n % 10)

NumberToString(n) == [neg |-> n < 0, digits |-> DigitsOf(Abs(n))]

\* parseInt of such a string
ParseInt(str) == IF str.neg THEN -DigitsValue(str.digits) ELSE DigitsValue(str.digits)

\* String.prototype.trim, on the urls of the model
Trim(url) == IF url = " " THEN "" ELSE url

\* Lines 18-31
IsServerConnected(ls) ==
    LET url == IF UrlKey \in DOMAIN ls THEN ls[UrlKey] ELSE ""
    IN  /\ Trim(url) # ""
        /\ EnabledKey \in DOMAIN ls
        /\ ls[EnabledKey] = "true"

\* Variant: the local ids count upwards.
NextLocalIdUpwards(ls) ==
    ParseInt(IF NextIdKey \in DOMAIN ls THEN ls[NextIdKey] ELSE NumberToString(0)) + 1

\* Lines 43-48: parseInt(nextId || "0") - 1
NextLocalId(ls) ==
    ParseInt(IF NextIdKey \in DOMAIN ls THEN ls[NextIdKey] ELSE NumberToString(0)) - 1

\* The ids the server gives to new rooms.
ServerRoomIds == {7, 8}

\* Lines 41-56: not connected.  The item is set to "0" first when it is missing
\* (line 45) and to the new id then (line 49).
CreateRoomLocally ==
    /\ ~IsServerConnected(localStorage)
    /\ localStorage' = Put(localStorage, NextIdKey, NumberToString(NextLocalId(localStorage)))
    /\ UNCHANGED apiCalls
    /\ created' = Append(created, [id |-> NextLocalId(localStorage),
                                     connected |-> FALSE,
                                     rejected |-> FALSE,
                                     before |-> localStorage,
                                     after |-> localStorage',
                                     apiCallsBefore |-> apiCalls,
                                     apiCallsAfter |-> apiCalls'])

\* Lines 58-64: connected.  roomApi.createRoom answers with the new room, or
\* rejects, and the rejection is thrown again.
CreateRoomOnServer ==
    /\ IsServerConnected(localStorage)
    /\ apiCalls' = apiCalls + 1
    /\ UNCHANGED localStorage
    /\ \E answer \in ServerRoomIds \cup {0} :
          created' = Append(created, [id |-> answer,
                                      connected |-> TRUE,
                                      rejected |-> answer = 0,
                                      before |-> localStorage,
                                      after |-> localStorage',
                                      apiCallsBefore |-> apiCalls,
                                      apiCallsAfter |-> apiCalls'])

CreateRoomInApi ==
    /\ pc = "idle"
    /\ Len(created) < MaxCalls
    /\ (CreateRoomLocally \/ CreateRoomOnServer)
    /\ UNCHANGED <<layoutVars, callVars, loadVars, flowVars>>

\* The settings of the server, which the user changes between calls.
ServerUrls == {"", " ", "http://localhost:4001"}

ChangeServerSettings ==
    /\ pc = "idle"
    /\ \E url \in ServerUrls :
          \E enabled \in {"true", "false"} :
             localStorage' = Put(Put(localStorage, UrlKey, url), EnabledKey, enabled)
    /\ UNCHANGED <<created, apiCalls>>
    /\ UNCHANGED <<layoutVars, callVars, loadVars, flowVars>>

\* The next-id item is missing, or holds the id of the last room created locally.
StoredNextIds == {NumberToString(-1), NumberToString(-5), NumberToString(-9)}

\* calculateAutoLayout has not been called.
NoLayoutCall ==
    /\ allNodes = <<>>
    /\ allEdges = <<>>
    /\ startNodeId = <<>>
    /\ nodePositions = <<>>
    /\ graphIn = <<>>
    /\ graphOut = <<>>
    /\ rootNodeIds = <<>>
    /\ positionedIds = {}
    /\ queue = <<>>
    /\ unplaced = <<>>
    /\ enhancedEdges = <<>>
    /\ dequeues = 0
    /\ enqueued = <<>>
    /\ calls = 0
    /\ firstCall = <<>>

InitRooms ==
    /\ NoLayoutCall
    /\ NoLoad
    /\ NoFlow
    /\ pc = "idle"
    /\ \/ localStorage = <<>>
       \/ \E str \in StoredNextIds : localStorage = Put(<<>>, NextIdKey, str)
    /\ created = <<>>
    /\ apiCalls = 0

NextRooms ==
    \/ CreateRoomInApi
    \/ ChangeServerSettings

SpecRooms == InitRooms /\ [][NextRooms]_vars

(***************************************************************************)
(* loadRoomsFromApi (src/unnamed/part_008, 10-136).                        *)
(*                                                                         *)
(* A room id is a number; the id of its node is the string of its digits.  *)
(* The id of the edge of exit n, `e${n}`, is <<"e", n>>.                   *)
(***************************************************************************)
RoomIdPool == {1, 2, 10}

\* room.id.toString(), startRoomId.toString()
RoomIdString(n) == DigitsOf(n)

\* `e${exit.id}`
EdgeIdOfExit(n) == <<"e", n>>

RECURSIVE Ascending(_)
Ascending(S) ==
    IF S = {} THEN <<>>
    ELSE LET m == CHOOSE n \in S : \A k \in S : n <= k
         IN  <<m>> \o Ascending(S \ {m})

\* Object.values(data.rooms): the rooms, keyed by their ids, come in ascending
\* order of the keys.
FetchedRoomLists == {Ascending(S) : S \in SUBSET RoomIdPool}

\* Object.values(data.exits): no exit, or one exit between two rooms.  Exit 1
\* is the exit of the edge the diagram may hold already.
FetchedExitLists ==
    {<<>>} \cup
    {<<[id |-> n, source_id |-> a, destination_id |-> b]>> :
        n \in {1, 2}, a \in RoomIdPool, b \in RoomIdPool}

\* The positions of the nodes of the diagram: those an earlier load gave them
\* (as its roots), or those the user dragged them to.
ExistingLayouts ==
    {[i \in 1..Cardinality(NodeIdPool) |-> RootPosition(i - 1)],
     [i \in 1..Cardinality(NodeIdPool) |->
         [x |-> Milli(40 + 500 * i), y |-> Milli(-60)]]}

\* Lines 52-55: Math.random() * 800 and Math.random() * 600, by index in newNodes.
TempLayouts ==
    {[i \in 1..Cardinality(RoomIdPool) |-> [x |-> 0, y |-> 0]],
     [i \in 1..Cardinality(RoomIdPool) |-> [x |-> Milli(750), y |-> Milli(300)]]}

\* createEdgeFromApiExit (src/lib/api-utils.ts, 142-166)
CreateEdgeFromApiExit(exit) ==
    [MakeEdge(EdgeIdOfExit(exit.id),
              <<RoomIdString(exit.source_id), RoomIdString(exit.destination_id)>>)
        EXCEPT !.data = [api_id |-> exit.id]]

InitLoad ==
    /\ NoLayoutCall
    /\ NoRoomCalls
    /\ NoFlow
    /\ pc = "fetch"
    /\ \E ids \in {l \in NodeLists : Len(l) <= 2} :
         \E ps \in ExistingLayouts :
            existingNodes = [i \in 1..Len(ids) |-> [id |-> ids[i], position |-> ps[i]]]
    /\ \/ existingEdges = <<>>
       \/ \E a, b \in NodeIds(existingNodes) :
             existingEdges =
                <<[MakeEdge(EdgeIdOfExit(1), <<a, b>>)
                      EXCEPT !.sourceHandle = "bottom-source",
                             !.targetHandle = "top-target"]>>
    /\ startRoomId \in RoomIdPool
    /\ data = <<>>
    /\ newNodes = <<>>
    /\ newEdges = <<>>
    /\ loadResult = <<>>
    /\ firstLoad = <<>>

\* Lines 42-62: a node for every room that is not in the diagram yet.
RECURSIVE NewNodesOf(_, _, _, _)
NewNodesOf(rooms, nodeIds, temp, made) ==
    IF rooms = <<>> THEN made
    ELSE LET roomId == RoomIdString(Head(rooms))
         IN  IF roomId \in nodeIds
             THEN NewNodesOf(Tail(rooms), nodeIds, temp, made)
             ELSE NewNodesOf(Tail(rooms), nodeIds \cup {roomId}, temp,
                             Append(made, [id |-> roomId,
                                           position |-> temp[Len(made) + 1]]))

\* Lines 65-95: an edge for every exit that is not in the diagram yet and has
\* both its rooms in the diagram or among the new nodes.
RECURSIVE NewEdgesOf(_, _, _, _)
NewEdgesOf(exits, edgeIds, nodeIds, made) ==
    IF exits = <<>> THEN made
    ELSE LET exit == Head(exits)
             edgeId == EdgeIdOfExit(exit.id)
         IN  IF \/ edgeId \in edgeIds
                \/ RoomIdString(exit.source_id) \notin nodeIds
                \/ RoomIdString(exit.destination_id) \notin nodeIds
             THEN NewEdgesOf(Tail(exits), edgeIds, nodeIds, made)
             ELSE NewEdgesOf(Tail(exits), edgeIds \cup {edgeId}, nodeIds,
                             Append(made, CreateEdgeFromApiExit(exit)))

EdgeIds(edges) == {edges[i].id : i \in DOMAIN edges}

\* Lines 16-114: from the answer of the server to the call of calculateAutoLayout.
MergeRoomGraph ==
    /\ pc = "fetch"
    /\ \E rooms \in FetchedRoomLists :
         \E exits \in FetchedExitLists :
            \E temp \in TempLayouts :
               LET nodes == NewNodesOf(rooms, NodeIds(existingNodes), temp, <<>>)
                   edges == NewEdgesOf(exits, EdgeIds(existingEdges),
                                       NodeIds(existingNodes) \cup NodeIds(nodes), <<>>)
               IN  /\ data' = [rooms |-> rooms, exits |-> exits]
                   /\ IF rooms = <<>>
                      THEN /\ loadResult' = [newNodes |-> <<>>, newEdges |-> <<>>,
                                             message |-> <<"No rooms found with ID", startRoomId>>]
                           /\ pc' = "loaded"
                           /\ UNCHANGED <<newNodes, newEdges, allNodes, allEdges,
                                          startNodeId, calls>>
                      ELSE IF nodes = <<>> /\ edges = <<>>
                      THEN /\ loadResult' = [newNodes |-> <<>>, newEdges |-> <<>>,
                                             message |-> <<"All rooms and exits already exist in the diagram">>]
                           /\ pc' = "loaded"
                           /\ newNodes' = nodes
                           /\ newEdges' = edges
                           /\ UNCHANGED <<allNodes, allEdges, startNodeId, calls>>
                      ELSE /\ newNodes' = nodes
                           /\ newEdges' = edges
                           /\ allNodes' = existingNodes \o nodes
                           /\ allEdges' = existingEdges \o edges
                           /\ startNodeId' = RoomIdString(startRoomId)
                           /\ calls' = 1
                           /\ pc' = "build"
                           /\ UNCHANGED loadResult
    /\ UNCHANGED <<nodePositions, graphIn, graphOut, rootNodeIds, positionedIds,
                   queue, unplaced, enhancedEdges, dequeues, enqueued, firstCall>>
    /\ UNCHANGED <<existingNodes, existingEdges, startRoomId, firstLoad>>
    /\ UNCHANGED <<roomVars, flowVars>>

\* Lines 22-27, 132-135: the request fails, or the answer has no rooms or no
\* exits object; the error is thrown again.
LoadFails ==
    /\ pc = "fetch"
    /\ pc' = "failed"
    /\ UNCHANGED <<allNodes, allEdges, startNodeId, nodePositions, graphIn,
                   graphOut, rootNodeIds, positionedIds, queue, unplaced,
                   enhancedEdges, dequeues, enqueued>>
    /\ UNCHANGED <<callVars, roomVars, loadVars, flowVars>>

\* Lines 116-131: the positions of the new nodes and the handles of the new edges.
ApplyLayout ==
    /\ pc = "done"
    /\ loadResult' =
          [newNodes |-> [i \in DOMAIN newNodes |->
                            [newNodes[i] EXCEPT !.position = nodePositions[newNodes[i].id]]],
           newEdges |-> SelectSeq(enhancedEdges,
                                  LAMBDA edge : \E j \in DOMAIN newEdges :
                                                   newEdges[j].id = edge.id),
           message |-> <<"Added", Len(newNodes), "new rooms and",
                         Cardinality({i \in DOMAIN enhancedEdges :
                                         \E j \in DOMAIN newEdges :
                                            newEdges[j].id = enhancedEdges[i].id}),
                         "new exits">>]
    /\ pc' = "loaded"
    /\ UNCHANGED <<allNodes, allEdges, startNodeId, nodePositions, graphIn,
                   graphOut, rootNodeIds, positionedIds, queue, unplaced,
                   enhancedEdges, dequeues, enqueued>>
    /\ UNCHANGED <<existingNodes, existingEdges, startRoomId, data, newNodes,
                   newEdges, firstLoad>>
    /\ UNCHANGED <<callVars, roomVars, flowVars>>

NextLoad ==
    \/ MergeRoomGraph
    \/ LoadFails
    \/ Next
    \/ ApplyLayout

SpecLoad == InitLoad /\ [][NextLoad]_vars

(***************************************************************************)
(* A second load with the same arguments and the same answer of the        *)
(* server, in which Math.random (lines 52-55) gives the new nodes other    *)
(* temporary positions.                                                    *)
(***************************************************************************)
LoadAgain ==
    /\ pc = "loaded"
    /\ calls = 1
    /\ newNodes # <<>>
    /\ \E temp \in TempLayouts :
          LET nodes == NewNodesOf(data.rooms, NodeIds(existingNodes), temp, <<>>)
          IN  /\ nodes # newNodes
              /\ newNodes' = nodes
              /\ allNodes' = existingNodes \o nodes
    /\ firstLoad' = loadResult
    /\ loadResult' = <<>>
    /\ calls' = 2
    /\ pc' = "build"
    /\ dequeues' = 0
    /\ enqueued' = <<>>
    /\ UNCHANGED <<allEdges, startNodeId, nodePositions, graphIn, graphOut,
                   rootNodeIds, positionedIds, queue, unplaced, enhancedEdges,
                   firstCall>>
    /\ UNCHANGED <<existingNodes, existingEdges, startRoomId, data, newEdges>>
    /\ UNCHANGED <<roomVars, flowVars>>

NextLoadTwice ==
    \/ NextLoad
    \/ LoadAgain

SpecLoadTwice == InitLoad /\ [][NextLoadTwice]_vars

(***************************************************************************)
(* Vocabulary of the properties, defined on the arguments and the results  *)
(* and not on the adjacency maps the function builds.                      *)
(***************************************************************************)
Returned == pc = "done"

Thrown == pc = "raised"

RootsChosen == pc \in {"place", "bfs", "handles", "done"}

SuppliedIds == {allNodes[i].id : i \in DOMAIN allNodes}

EdgesReferenceNodes ==
    \A i \in DOMAIN allEdges :
        allEdges[i].source \in SuppliedIds /\ allEdges[i].target \in SuppliedIds

InDegree(a) == Cardinality({i \in DOMAIN allEdges : allEdges[i].target = a})

StartNamesNode == startNodeId # <<>> /\ startNodeId \in SuppliedIds

RECURSIVE ReachableFrom(_)
ReachableFrom(S) ==
    LET T == S \cup {allEdges[i].target :
                        i \in {j \in DOMAIN allEdges : allEdges[j].source \in S}}
    IN  IF T = S THEN S ELSE ReachableFrom(T)

IsPosition(p) == DOMAIN p = {"x", "y"} /\ p.x \in Int /\ p.y \in Int

\* a sorts lexicographically after b
LexGreater(a, b) ==
    \E k \in 1..Len(a) :
        /\ \A m \in 1..(k - 1) : m <= Len(b) /\ a[m] = b[m]
        /\ (k > Len(b) \/ a[k] > b[k])

ReversePair(i, j) ==
    /\ allEdges[i].source = allEdges[j].target
    /\ allEdges[i].target = allEdges[j].source
    /\ allEdges[i].source # allEdges[i].target

HandlePair(e) == <<e.sourceHandle, e.targetHandle>>

OffsetPairs ==
    {<<"top-source", "top-target">>, <<"bottom-source", "bottom-target">>,
     <<"right-source", "right-target">>, <<"left-source", "left-target">>}

Dx(e) == nodePositions[e.target].x - nodePositions[e.source].x

Dy(e) == nodePositions[e.target].y - nodePositions[e.source].y

(***************************************************************************)
(* C1.  Coverage: when every edge references supplied nodes, the call does *)
(* not throw and the returned position map has a defined {x, y} entry for  *)
(* every node of allNodes.                                                 *)
(***************************************************************************)
C1_Coverage ==
    EdgesReferenceNodes =>
        /\ ~Thrown
        /\ Returned =>
              \A a \in SuppliedIds :
                  a \in DOMAIN nodePositions /\ IsPosition(nodePositions[a])

\* a cyclic, disconnected graph laid out without a start node
C1_Witness ==
    /\ Returned
    /\ startNodeId = <<>>
    /\ unplaced # <<>>
    /\ \E i, j \in DOMAIN allEdges : ReversePair(i, j)

(***************************************************************************)
(* C2.  A node that carries into the call the position an earlier layout   *)
(* pass gave it has that same position in the returned map.                *)
(***************************************************************************)
\* The position an earlier call gave the node when it laid the same nodes out
\* as its roots (lines 312-318).
PlacedByEarlierPass(i) == allNodes[i].position = RootPosition(i - 1)

C2_KeepsExistingPositions ==
    Returned =>
        \A i \in DOMAIN allNodes :
            PlacedByEarlierPass(i) =>
                nodePositions[allNodes[i].id] = allNodes[i].position

(***************************************************************************)
(* C3.  An edge whose source or target is no supplied node is skipped: the *)
(* call does not throw and returns a position for every node.              *)
(***************************************************************************)
C3_DanglingEdgeSkipped ==
    ~EdgesReferenceNodes => ~Thrown

(***************************************************************************)
(* C4.  Termination: the ids ever put on the BFS queue, and so the dequeue *)
(* steps, number at most nodes plus edges; the queue is empty once the     *)
(* loop is left; and a step is possible until the call has returned or     *)
(* thrown.                                                                 *)
(***************************************************************************)
C4_TerminationBound ==
    /\ dequeues + Len(queue) <= Len(allNodes) + Len(allEdges)
    /\ pc \in {"handles", "done"} => queue = <<>>
    /\ ~(Returned \/ Thrown) => ENABLED Next

\* two edges from the same parent to the same child: the child is put on the
\* queue twice, and there are more dequeue steps than nodes
C4_Witness ==
    /\ Returned
    /\ dequeues > Len(allNodes)
    /\ \E i, j \in DOMAIN allEdges :
          /\ i # j
          /\ allEdges[i].source = allEdges[j].source
          /\ allEdges[i].target = allEdges[j].target

(***************************************************************************)
(* C5.  A startNodeId that names a node is the only root, whatever the     *)
(* in-degrees, and the nodes not reachable from it are placed by the       *)
(* fallback packing.                                                       *)
(***************************************************************************)
C5_StartNodeSoleRoot ==
    StartNamesNode =>
        /\ RootsChosen => rootNodeIds = <<startNodeId>>
        /\ pc \in {"bfs", "handles", "done"} => positionedIds \subseteq ReachableFrom({startNodeId})
        /\ Returned =>
              \A a \in SuppliedIds \ ReachableFrom({startNodeId}) :
                  a \in Range(unplaced) /\ a \notin positionedIds

\* another node has no incoming edge and is not reachable from the start node
C5_Witness ==
    /\ Returned
    /\ StartNamesNode
    /\ InDegree(startNodeId) > 0
    /\ \E a \in SuppliedIds \ ReachableFrom({startNodeId}) :
          InDegree(a) = 0 /\ a \in Range(unplaced)

(***************************************************************************)
(* C6.  Without a start node that names a node, and with some node of      *)
(* in-degree zero, the roots are the nodes of in-degree zero, in the       *)
(* order of allNodes.                                                      *)
(***************************************************************************)
C6_ZeroInDegreeRoots ==
    (RootsChosen /\ ~StartNamesNode /\ \E a \in SuppliedIds : InDegree(a) = 0) =>
        rootNodeIds =
            SelectSeq([i \in DOMAIN allNodes |-> allNodes[i].id],
                      LAMBDA a : InDegree(a) = 0)

\* a start node is supplied but names no node; one node of two is a root
C6_Witness ==
    /\ Returned
    /\ startNodeId # <<>>
    /\ startNodeId \notin SuppliedIds
    /\ Len(allNodes) = 2
    /\ rootNodeIds = <<allNodes[2].id>>

(***************************************************************************)
(* C7.  Without a start node that names a node, and with an incoming edge  *)
(* at every node, the first node of allNodes is the only root, and every   *)
(* other node reachable from it is placed by the BFS.                      *)
(***************************************************************************)
C7_FirstNodeFallbackRoot ==
    (RootsChosen /\ ~StartNamesNode /\ allNodes # <<>>
        /\ \A a \in SuppliedIds : InDegree(a) > 0) =>
        /\ rootNodeIds = <<allNodes[1].id>>
        /\ Returned =>
              \A a \in ReachableFrom({allNodes[1].id}) \ {allNodes[1].id} :
                  a \in positionedIds /\ a \notin Range(unplaced)

\* the 2-cycle between the first and the second node
C7_Witness ==
    /\ Returned
    /\ ~StartNamesNode
    /\ Len(allNodes) >= 2
    /\ \A a \in SuppliedIds : InDegree(a) > 0
    /\ \E i, j \in DOMAIN allEdges :
          /\ ReversePair(i, j)
          /\ allEdges[i].source = allNodes[1].id
          /\ allEdges[i].target = allNodes[2].id
    /\ allNodes[2].id \in positionedIds

(***************************************************************************)
(* C8.  An edge that is not the redirected edge of a reverse pair gets the *)
(* handles of its dominant axis: with |dx| >= |dy|, right-source and       *)
(* left-target when dx > 0, else left-source and right-target; with        *)
(* |dx| < |dy|, bottom-source and top-target when dy > 0, else top-source  *)
(* and bottom-target.                                                      *)
(***************************************************************************)
Redirected(e) ==
    /\ \E j \in DOMAIN allEdges :
          allEdges[j].source = e.target /\ allEdges[j].target = e.source
    /\ LexGreater(e.source, e.target)

DominantAxisHandles(dx, dy) ==
    IF Abs(dx) >= Abs(dy)
    THEN (IF dx > 0 THEN <<"right-source", "left-target">>
                    ELSE <<"left-source", "right-target">>)
    ELSE (IF dy > 0 THEN <<"bottom-source", "top-target">>
                    ELSE <<"top-source", "bottom-target">>)

C8_DominantAxisHandles ==
    Returned =>
        \A i \in DOMAIN enhancedEdges :
            ~Redirected(enhancedEdges[i]) =>
                HandlePair(enhancedEdges[i]) =
                    DominantAxisHandles(Dx(enhancedEdges[i]), Dy(enhancedEdges[i]))

\* an edge going straight up that is not redirected (vertical case, dy < 0,
\* dx = 0): the edge from a single child back to its parent
C8_Witness ==
    /\ Returned
    /\ \E j \in DOMAIN enhancedEdges :
          /\ ~Redirected(enhancedEdges[j])
          /\ Dy(enhancedEdges[j]) < 0
          /\ Dx(enhancedEdges[j]) = 0
          /\ HandlePair(enhancedEdges[j]) = <<"top-source", "bottom-target">>

(***************************************************************************)
(* C9.  Of the two directions of a reverse pair between distinct nodes,    *)
(* exactly one gets offset handles: the one whose source sorts             *)
(* lexicographically after its target.                                     *)
(***************************************************************************)
C9_ExactlyOneRedirected ==
    Returned =>
        \A i, j \in DOMAIN enhancedEdges :
            ReversePair(i, j) =>
                /\ (HandlePair(enhancedEdges[i]) \in OffsetPairs)
                       <=> LexGreater(allEdges[i].source, allEdges[i].target)
                /\ (HandlePair(enhancedEdges[i]) \in OffsetPairs)
                       # (HandlePair(enhancedEdges[j]) \in OffsetPairs)

\* a reverse pair between "2" and "10", where the string order is not the numeric one
C9_Witness ==
    /\ Returned
    /\ \E i, j \in DOMAIN enhancedEdges :
          /\ ReversePair(i, j)
          /\ allEdges[i].source = <<2>>
          /\ allEdges[i].target = <<1, 0>>
          /\ HandlePair(enhancedEdges[i]) \in OffsetPairs

(***************************************************************************)
(* C10.  The two directions of a reverse pair between distinct nodes never *)
(* get the same (sourceHandle, targetHandle) pair.                         *)
(***************************************************************************)
C10_ReversePairHandlesDiffer ==
    Returned =>
        \A i, j \in DOMAIN enhancedEdges :
            ReversePair(i, j) =>
                HandlePair(enhancedEdges[i]) # HandlePair(enhancedEdges[j])

\* a reverse pair whose nodes are placed one straight below the other (dx = 0)
C10_Witness ==
    /\ Returned
    /\ \E i, j \in DOMAIN enhancedEdges :
          ReversePair(i, j) /\ Dx(enhancedEdges[i]) = 0

C12_PlacedAndEnqueuedOnce ==
    \A i, j \in DOMAIN enqueued : i # j => enqueued[i] # enqueued[j]

(***************************************************************************)
(* C13.  The distinct children one BFS step places get pairwise different *)
(* positions.                                                              *)
(***************************************************************************)
C13_SiblingsDistinct ==
    [][(pc = "bfs" /\ pc' = "bfs") =>
          \A a, b \in positionedIds' \ positionedIds :
              a # b => nodePositions'[a] # nodePositions'[b]]_vars

\* the first step has placed two distinct children of the only root
C13_Witness ==
    /\ pc = "bfs"
    /\ dequeues = 1
    /\ Len(rootNodeIds) = 1
    /\ Len(queue) = 2
    /\ queue[1] # queue[2]
    /\ nodePositions[queue[1]].x # nodePositions[queue[2]].x

(***************************************************************************)
(* C14.  A node placed by the fallback packing ends at a position no other *)
(* node of the result has, be it a root, a BFS child or another node of    *)
(* the packing.                                                            *)
(***************************************************************************)
C14_FallbackPositionsUnique ==
    Returned =>
        \A a \in Range(unplaced) :
            \A b \in SuppliedIds :
                a # b => nodePositions[a] # nodePositions[b]

\* two nodes are packed beside a root
C14_Witness ==
    /\ Returned
    /\ Len(unplaced) >= 2
    /\ rootNodeIds # <<>>
    /\ Range(rootNodeIds) \cap Range(unplaced) = {}

(***************************************************************************)
(* C15.  A call with an empty node list does not throw and returns an      *)
(* empty position map and an empty edge list.                              *)
(***************************************************************************)
EmptyResult == nodePositions = <<>> /\ enhancedEdges = <<>>

HandleFields == {"sourceHandle", "targetHandle"}

C16_EdgesKeptButHandles ==
    Returned =>
        /\ Len(enhancedEdges) = Len(allEdges)
        /\ \A i \in DOMAIN allEdges :
              /\ DOMAIN enhancedEdges[i] = DOMAIN allEdges[i]
              /\ \A f \in DOMAIN allEdges[i] \ HandleFields :
                    enhancedEdges[i][f] = allEdges[i][f]

\* two edges between different pairs of nodes, both given handles
C16_Witness ==
    /\ Returned
    /\ Len(allEdges) = 2
    /\ allEdges[1].source # allEdges[2].source
    /\ \A i \in DOMAIN allEdges :
          enhancedEdges[i].sourceHandle # allEdges[i].sourceHandle

(***************************************************************************)
(* C17.  No step of the call changes an argument: the nodes, with their    *)
(* positions, and the edges, with their handles, stay as they were passed. *)
(***************************************************************************)
C17_ArgumentsUnchanged ==
    [][/\ allNodes' = allNodes
       /\ allEdges' = allEdges
       /\ startNodeId' = startNodeId]_vars

\* the call has returned positions and handles that differ from those of the
\* arguments, for a root, a BFS child and a node of the fallback packing
C17_Witness ==
    /\ Returned
    /\ unplaced # <<>>
    /\ Len(enqueued) > Len(rootNodeIds)
    /\ \A i \in DOMAIN allNodes : nodePositions[allNodes[i].id] # allNodes[i].position
    /\ \E j \in DOMAIN allEdges : enhancedEdges[j] # allEdges[j]

(***************************************************************************)
(* C20.  The i-th root (from 0) is at x = i * horizontalSpacing and        *)
(* y = 100, from its placement to the return: the roots lie on one         *)
(* horizontal line at pairwise different positions, and a single node      *)
(* without edges is at the first slot.                                     *)
(***************************************************************************)
RootsPlaced == pc \in {"bfs", "handles", "done"}

C20_RootsOnOneLine ==
    RootsPlaced =>
        /\ \A i \in DOMAIN rootNodeIds :
              /\ nodePositions[rootNodeIds[i]].x = (i - 1) * Milli(horizontalSpacing)
              /\ nodePositions[rootNodeIds[i]].y = Milli(rootY)
        /\ \A i, j \in DOMAIN rootNodeIds :
              i # j => nodePositions[rootNodeIds[i]] # nodePositions[rootNodeIds[j]]
        /\ (Len(allNodes) = 1 /\ allEdges = <<>>) =>
              nodePositions[allNodes[1].id] = [x |-> 0, y |-> Milli(rootY)]

\* two roots, one of them with a child placed by the BFS
C20_Witness ==
    /\ Returned
    /\ Len(rootNodeIds) = 2
    /\ Len(enqueued) > Len(rootNodeIds)
    /\ nodePositions[rootNodeIds[2]] # allNodes[2].position

(***************************************************************************)
(* C19.  A call of createRoomInApi made while the server is not connected  *)
(* returns the stored next id (0 when the item is missing) minus one,      *)
(* stores that id back and does not call roomApi.createRoom; so the ids of *)
(* such calls are negative and strictly decreasing from call to call, and  *)
(* pairwise distinct.                                                      *)
(***************************************************************************)
LocalCalls == {k \in DOMAIN created : ~IsServerConnected(created[k].before)}

StoredNextId(ls) == IF NextIdKey \in DOMAIN ls THEN ParseInt(ls[NextIdKey]) ELSE 0

C19_LocalIdsDecrease ==
    /\ \A k \in LocalCalls :
          /\ created[k].id = StoredNextId(created[k].before) - 1
          /\ NextIdKey \in DOMAIN created[k].after
          /\ StoredNextId(created[k].after) = created[k].id
          /\ created[k].apiCallsAfter = created[k].apiCallsBefore
          /\ created[k].id < 0
    /\ \A j, k \in LocalCalls : j < k => created[k].id < created[j].id

\* a first local call with the item missing, a call answered by the server,
\* and a second local call
C19_Witness ==
    /\ Len(created) = 3
    /\ LocalCalls = {1, 3}
    /\ NextIdKey \notin DOMAIN created[1].before
    /\ created[1].id = -1
    /\ created[2].id \in ServerRoomIds
    /\ created[3].id = -2

(***************************************************************************)
(* C18.  When loadRoomsFromApi has returned, no node it adds is at the     *)
(* position of a node that was in the diagram already.                     *)
(***************************************************************************)
Loaded == pc = "loaded"

C18_NewNodesClearOfExisting ==
    Loaded =>
        \A i \in DOMAIN loadResult.newNodes :
            \A j \in DOMAIN existingNodes :
                loadResult.newNodes[i].position # existingNodes[j].position

(***************************************************************************)
(* C21.  The child at entry k (from 1) of the n entries of a parent's list *)
(* of not yet positioned out-neighbours is placed on an arc around the     *)
(* parent P, at the angle k * PI / (n + 1):                                *)
(* x = P.x + rx * cos, y = P.y + ry * sin.  A child listed more than once  *)
(* ends at its last entry.                                                 *)
(***************************************************************************)
\* the targets of the edges out of a that are not positioned, in edge order
UnpositionedTargets(a) ==
    LET es == SelectSeq(allEdges,
                        LAMBDA e : e.source = a /\ e.target \notin positionedIds)
    IN  [i \in DOMAIN es |-> es[i].target]

LastEntry(list, a) == Max({i \in DOMAIN list : list[i] = a})

ArcPoint(P, rx, ry, k, n) ==
    [x |-> P.x + rx * CosMilli(k, n + 1), y |-> P.y + ry * SinMilli(k, n + 1)]

ChildrenOnArc(rx, ry) ==
    (pc = "bfs" /\ pc' = "bfs") =>
        LET list == UnpositionedTargets(Head(queue))
        IN  \A a \in Range(list) :
                nodePositions'[a] =
                    ArcPoint(nodePositions[Head(queue)], rx, ry,
                             LastEntry(list, a), Len(list))

PlacedBeforePacking(i) == positionedIds \cup {unplaced[j] : j \in 1..(i - 1)}

C22_FallbackXFromPlacedOnly ==
    Returned =>
        \A i \in DOMAIN unplaced :
            nodePositions[unplaced[i]].x =
                Milli(horizontalSpacing)
                    + Max({nodePositions[a].x : a \in PlacedBeforePacking(i)})

(***************************************************************************)
(* C23.  When the call returns, every node that is no root and can be      *)
(* reached from a root along edges has been placed by the BFS, later than  *)
(* a node with an edge to it and on the arc around such a node, and was    *)
(* not packed by the fallback; the fallback packs the nodes that cannot be *)
(* reached from any root, and only those.                                  *)
(***************************************************************************)
ReachableFromRoots == ReachableFrom(Range(rootNodeIds))

HasEdge(a, b) ==
    \E i \in DOMAIN allEdges : allEdges[i].source = a /\ allEdges[i].target = b

PlacedAfterInNeighbour(a) ==
    \E k \in DOMAIN enqueued :
        /\ enqueued[k] = a
        /\ \E j \in 1..(k - 1) :
              /\ HasEdge(enqueued[j], a)
              /\ \E n \in 1..Len(allEdges) :
                    \E m \in 1..n :
                       nodePositions[a] =
                           ArcPoint(nodePositions[enqueued[j]],
                                    horizontalSpacing \div 2, verticalSpacing, m, n)

C23_ReachablePlacedByBfs ==
    Returned =>
        /\ \A a \in ReachableFromRoots \ Range(rootNodeIds) :
              /\ a \in positionedIds
              /\ a \notin Range(unplaced)
              /\ PlacedAfterInNeighbour(a)
        /\ Range(unplaced) = SuppliedIds \ ReachableFromRoots

\* a chain root -> child -> grandchild
C23_Witness ==
    /\ Returned
    /\ Len(rootNodeIds) = 1
    /\ Len(enqueued) = 3
    /\ HasEdge(enqueued[1], enqueued[2])
    /\ HasEdge(enqueued[2], enqueued[3])
    /\ ~HasEdge(enqueued[1], enqueued[3])
    /\ unplaced = <<>>

(***************************************************************************)
(* C24.  An edge whose source or target has no position after the layout   *)
(* does not make the call throw, and is returned as it was passed, with    *)
(* the handles it had.                                                     *)
(***************************************************************************)
Unresolved(edge) ==
    edge.source \notin SuppliedIds \/ edge.target \notin SuppliedIds

C24_UnresolvedEdgePassedThrough ==
    \A i \in DOMAIN allEdges :
        Unresolved(allEdges[i]) =>
            /\ ~Thrown
            /\ Returned => enhancedEdges[i] = allEdges[i]

(***************************************************************************)
(* C25.  The redirected edge of a reverse pair gets the same side on both  *)
(* nodes, on the axis across its dominant one: with |dx| >= |dy|, top when *)
(* dy >= 0 and bottom otherwise; with |dx| < |dy|, right when dx >= 0 and  *)
(* left otherwise.  An edge without a reverse edge never gets such a pair. *)
(***************************************************************************)
OffsetHandles(dx, dy) ==
    IF Abs(dx) >= Abs(dy)
    THEN (IF dy >= 0 THEN <<"top-source", "top-target">>
                     ELSE <<"bottom-source", "bottom-target">>)
    ELSE (IF dx >= 0 THEN <<"right-source", "right-target">>
                     ELSE <<"left-source", "left-target">>)

IsSelfLoop(edge) == edge.source = edge.target

C29_SelfLoopHarmless ==
    [][/\ (pc = "bfs" /\ pc' = "bfs" /\ HasEdge(Head(queue), Head(queue))) =>
             /\ nodePositions'[Head(queue)] = nodePositions[Head(queue)]
             /\ \A k \in (Len(enqueued) + 1)..Len(enqueued') :
                   enqueued'[k] # Head(queue)
       /\ (pc = "handles" /\ pc' = "done") =>
             \A i \in DOMAIN allEdges :
                 IsSelfLoop(allEdges[i]) =>
                     HandlePair(enhancedEdges'[i]) = <<"left-source", "right-target">>]_vars

\* a child with a self-loop has been dequeued, and the call has returned
C29_Witness ==
    /\ Returned
    /\ Len(enqueued) = 2
    /\ dequeues = 2
    /\ enqueued[2] \notin Range(rootNodeIds)
    /\ HasEdge(enqueued[2], enqueued[2])
    /\ HasEdge(enqueued[1], enqueued[2])

(***************************************************************************)
(* C26.  Every new edge loadRoomsFromApi returns has the handles the       *)
(* handle rule gives for the positions its end nodes have in the merged    *)
(* diagram: a node of the diagram where it was before the load, a new node *)
(* where the load returns it.                                              *)
(***************************************************************************)
PositionInDiagram(a) ==
    IF \E j \in DOMAIN existingNodes : existingNodes[j].id = a
    THEN existingNodes[CHOOSE j \in DOMAIN existingNodes : existingNodes[j].id = a].position
    ELSE loadResult.newNodes[CHOOSE i \in DOMAIN loadResult.newNodes :
                                loadResult.newNodes[i].id = a].position

ExpectedHandles(edge) ==
    LET dx == PositionInDiagram(edge.target).x - PositionInDiagram(edge.source).x
        dy == PositionInDiagram(edge.target).y - PositionInDiagram(edge.source).y
    IN  IF Redirected(edge) THEN OffsetHandles(dx, dy) ELSE DominantAxisHandles(dx, dy)

C26_NewEdgeHandlesFitDiagram ==
    Loaded =>
        \A i \in DOMAIN loadResult.newEdges :
            HandlePair(loadResult.newEdges[i]) = ExpectedHandles(loadResult.newEdges[i])

(***************************************************************************)
(* C27.  A second load that differs from the first only in the temporary   *)
(* positions of the new nodes returns what the first returned: the same    *)
(* positions of the new nodes and the same handles of the new edges.       *)
(***************************************************************************)
C27_ResultWhateverTempPositions ==
    (calls = 2 /\ Loaded) => loadResult = firstLoad

(***************************************************************************)
(* The flow diagram (src/unnamed/part_002): the state `nodes` and `edges`  *)
(* of the component and the handlers that write it.  A node is kept as its *)
(* id, an edge as [id, source, target]; positions, labels and handles play *)
(* no part in what the handlers add to or take from the two lists.         *)
(*                                                                         *)
(* A handler that awaits the server is two steps: the call, which runs to  *)
(* the await with the `nodes` and `edges` of the render it was made in,    *)
(* and the resumption.  Other handlers run between the two.                *)
(***************************************************************************)
\* The number of handler calls of a run.
MaxEdits == 4

\* `${n}` and n.toString(): the id of a node
NodeIdOf(n) == NumberToString(n)

RemoveAt(list, i) == SubSeq(list, 1, i - 1) \o SubSeq(list, i + 1, Len(list))

\* The rooms the server holds before the run and answers a load with.
FlowRoomIds == {1, 2}

\* Object.values(data.rooms), in ascending order of the keys
FlowRoomLists == {Ascending(S) : S \in SUBSET FlowRoomIds}

\* Object.values(data.exits): no exit, or the exit from room 1 to room 2
FlowExitLists == {<<>>, <<[id |-> 1, source_id |-> 1, destination_id |-> 2]>>}

\* loadRooms has written nothing yet.
NoWrite ==
    [writes |-> 0,
     began |-> <<>>, before |-> <<>>, after |-> <<>>,
     beganEdges |-> <<>>, beforeEdges |-> <<>>, afterEdges |-> <<>>]

\* The component is mounted with an empty diagram; the server is switched
\* off, or switched on at a url.
InitFlow ==
    /\ NoLayoutCall
    /\ NoLoad
    /\ pc = "idle"
    /\ \/ localStorage = <<>>
       \/ localStorage = Put(Put(<<>>, UrlKey, "http://localhost:4001"), EnabledKey, "true")
    /\ created = <<>>
    /\ apiCalls = 0
    /\ diagramNodes = <<>>
    /\ diagramEdges = <<>>
    /\ adding = <<>>
    /\ loading = <<>>
    /\ serverNextId = CHOOSE n \in ServerRoomIds : \A m \in ServerRoomIds : n <= m
    /\ edits = 0
    /\ lastLoad = NoWrite

\* Lines 334-352, to the await.  createRoomInApi (api-utils.ts 36-56) has run
\* to its own await by then: without a server it has taken the next local id
\* and stored it.
OnAddNodeCall ==
    /\ edits < MaxEdits
    /\ edits' = edits + 1
    /\ LET newNodeId == NodeIdOf(Len(diagramNodes) + 1)
       IN  IF IsServerConnected(localStorage)
           THEN /\ adding' = Append(adding, [newNodeId |-> newNodeId,
                                             local |-> FALSE,
                                             id |-> 0])
                /\ UNCHANGED localStorage
           ELSE /\ adding' = Append(adding, [newNodeId |-> newNodeId,
                                             local |-> TRUE,
                                             id |-> NextLocalId(localStorage)])
                /\ localStorage' = Put(localStorage, NextIdKey,
                                       NumberToString(NextLocalId(localStorage)))
    /\ UNCHANGED <<created, apiCalls>>
    /\ UNCHANGED <<diagramNodes, diagramEdges, loading, serverNextId, lastLoad>>
    /\ UNCHANGED <<layoutVars, callVars, loadVars>>

\* Lines 364-379: the room has an id, which becomes the id of the node.
AddCreatedNode(roomId) == diagramNodes' = Append(diagramNodes, NodeIdOf(roomId))

\* Lines 385-399: the server has rejected the room; the node takes newNodeId.
AddLocalNode(newNodeId) == diagramNodes' = Append(diagramNodes, newNodeId)

\* Lines 352-407, from the await on.  The update is functional: it appends to
\* the list of the moment.
OnAddNodeResume ==
    /\ \E i \in DOMAIN adding :
          /\ adding' = RemoveAt(adding, i)
          /\ \/ /\ adding[i].local
                /\ AddCreatedNode(adding[i].id)
                /\ UNCHANGED serverNextId
             \/ /\ ~adding[i].local
                /\ AddCreatedNode(serverNextId)
                /\ serverNextId' = serverNextId + 1
             \/ /\ ~adding[i].local
                /\ AddLocalNode(adding[i].newNodeId)
                /\ UNCHANGED serverNextId
    /\ UNCHANGED <<diagramEdges, loading, edits, lastLoad>>
    /\ UNCHANGED roomVars
    /\ UNCHANGED <<layoutVars, callVars, loadVars>>

\* Lines 798-824, to the await, with a room id and a depth that pass the two
\* tests.  roomApi.readRoomGraph (part_006 145-152) tests the connection
\* before it asks the server.
LoadRoomsCall ==
    /\ edits < MaxEdits
    /\ edits' = edits + 1
    /\ loading' = Append(loading, [nodes |-> diagramNodes,
                                   edges |-> diagramEdges,
                                   connected |-> IsServerConnected(localStorage)])
    /\ UNCHANGED <<diagramNodes, diagramEdges, adding, serverNextId, lastLoad>>
    /\ UNCHANGED roomVars
    /\ UNCHANGED <<layoutVars, callVars, loadVars>>

\* Lines 841-881: the ids of the rooms the diagram of the call does not hold
RECURSIVE RoomNodes(_, _)
RoomNodes(rooms, existingNodeIds) ==
    IF rooms = <<>> THEN <<>>
    ELSE IF NodeIdOf(Head(rooms)) \in existingNodeIds
         THEN RoomNodes(Tail(rooms), existingNodeIds)
         ELSE <<NodeIdOf(Head(rooms))>>
                 \o RoomNodes(Tail(rooms), existingNodeIds \cup {NodeIdOf(Head(rooms))})

\* Lines 842-933: an edge for every exit that is new and has both its rooms
RECURSIVE ExitEdges(_, _, _)
ExitEdges(exits, existingEdgeIds, existingNodeIds) ==
    IF exits = <<>> THEN <<>>
    ELSE LET exit == Head(exits)
             edgeId == EdgeIdOfExit(exit.id)
             sourceId == NodeIdOf(exit.source_id)
             targetId == NodeIdOf(exit.destination_id)
         IN  IF \/ edgeId \in existingEdgeIds
                \/ sourceId \notin existingNodeIds
                \/ targetId \notin existingNodeIds
             THEN ExitEdges(Tail(exits), existingEdgeIds, existingNodeIds)
             ELSE <<[id |-> edgeId, source |-> sourceId, target |-> targetId]>>
                     \o ExitEdges(Tail(exits), existingEdgeIds \cup {edgeId},
                                  existingNodeIds)

\* Lines 969-972: graphOut[edge.source].push and graphIn[edge.target].push
\* raise a TypeError for an edge whose source or target is no node.
FillRaises(nodeIds, edgeList) ==
    \E k \in DOMAIN edgeList :
       edgeList[k].source \notin nodeIds \/ edgeList[k].target \notin nodeIds

\* Lines 1157-1158: setNodes([...nodes, ...positionedNewNodes]) and
\* setEdges([...edges, ...enhancedNewEdges]), with the `nodes` and `edges`
\* of the call.
WriteLoadedRooms(call, roomNodes, exitEdges) ==
    /\ diagramNodes' = call.nodes \o roomNodes
    /\ diagramEdges' = call.edges \o exitEdges
    /\ lastLoad' = [writes |-> 1,
                    began |-> call.nodes,
                    before |-> diagramNodes,
                    after |-> diagramNodes',
                    beganEdges |-> call.edges,
                    beforeEdges |-> diagramEdges,
                    afterEdges |-> diagramEdges']

\* Lines 824-1180, from the await on.  The call ends without a write when the
\* server rejects it, when it answers with no room or with nothing new, and
\* when the layout raises (all caught at line 1172).
LoadRoomsResume ==
    /\ \E i \in DOMAIN loading :
          LET call == loading[i]
          IN  /\ loading' = RemoveAt(loading, i)
              /\ \E rooms \in (IF call.connected THEN FlowRoomLists ELSE {<<>>}) :
                 \E exits \in (IF call.connected THEN FlowExitLists ELSE {<<>>}) :
                 \E rejected \in (IF call.connected THEN BOOLEAN ELSE {FALSE}) :
                    LET roomNodes == RoomNodes(rooms, Range(call.nodes))
                        exitEdges == ExitEdges(exits, EdgeIds(call.edges),
                                               Range(call.nodes) \cup Range(roomNodes))
                    IN  IF \/ rejected
                           \/ rooms = <<>>
                           \/ (roomNodes = <<>> /\ exitEdges = <<>>)
                           \/ FillRaises(Range(call.nodes) \cup Range(roomNodes),
                                         call.edges \o exitEdges)
                        THEN UNCHANGED <<diagramNodes, diagramEdges, lastLoad>>
                        ELSE WriteLoadedRooms(call, roomNodes, exitEdges)
    /\ UNCHANGED <<adding, serverNextId, edits>>
    /\ UNCHANGED roomVars
    /\ UNCHANGED <<layoutVars, callVars, loadVars>>

\* Lines 599-648, with one node or one edge selected.  The two updates are
\* functional and filter by id.
OnDeleteSelected ==
    /\ edits < MaxEdits
    /\ edits' = edits + 1
    /\ \/ \E id \in Range(diagramNodes) :
             /\ diagramNodes' = SelectSeq(diagramNodes, LAMBDA n : n # id)
             /\ UNCHANGED diagramEdges
       \/ \E id \in EdgeIds(diagramEdges) :
             /\ diagramEdges' = SelectSeq(diagramEdges, LAMBDA e : e.id # id)
             /\ UNCHANGED diagramNodes
    /\ UNCHANGED <<adding, loading, serverNextId, lastLoad>>
    /\ UNCHANGED roomVars
    /\ UNCHANGED <<layoutVars, callVars, loadVars>>

NextFlow ==
    \/ OnAddNodeCall
    \/ OnAddNodeResume
    \/ LoadRoomsCall
    \/ LoadRoomsResume
    \/ OnDeleteSelected

SpecFlow == InitFlow /\ [][NextFlow]_vars


(***************************************************************************)
(* C28.  A loadRooms call that writes its result leaves in the diagram     *)
(* every node and every edge that was added while it awaited the server:   *)
(* what the diagram held just before the write and did not hold when the   *)
(* call began is still there after the write.                              *)
(***************************************************************************)
AddedSince(began, before) == Range(before) \ Range(began)

C28_LoadKeepsLaterEdits ==
    /\ AddedSince(lastLoad.began, lastLoad.before) \subseteq Range(lastLoad.after)
    /\ AddedSince(lastLoad.beganEdges, lastLoad.beforeEdges)
          \subseteq Range(lastLoad.afterEdges)

(***************************************************************************)
(* C30.  After any sequence of added rooms (created by the server, added   *)
(* locally after the server failed, or created without a server), loads    *)
(* and deletions, no two nodes of the diagram have the same id.            *)
(***************************************************************************)
C30_NodeIdsUnique ==
    \A i, j \in DOMAIN diagramNodes :
       i # j => diagramNodes[i] # diagramNodes[j]

====
